---- MODULE Spec2Model ----
(***************************************************************************)
(* Model of p3/management/commands/talk_abstracts.py: the management       *)
(* command that prints a JSON report of the talks of a conference with     *)
(* their schedule and the ticket status of their speakers.                 *)
(*                                                                         *)
(* The data store (Django ORM tables) is the input of the program: Init    *)
(* draws it from bounded sets and no action changes it.                    *)
(***************************************************************************)
EXTENDS Integers, Sequences, FiniteSets, TLC

VARIABLES
    ticket,        \* conference.Ticket table: id -> [user_id, fare]
    ticketconf,    \* p3.TicketConference table, rows [ticket_id, assigned_to]
    orders,        \* assopy.Order table, rows [user, complete, items]
    hu,            \* argument of the last has_ticket call (0: none yet)
    hres,          \* its outcome, [exc, val]
    talkdb,        \* conference.Talk table, the id of a talk is its index
    admin_types,   \* dict(models.TALK_ADMIN_TYPE).items(), in iteration order
    group_order,   \* iteration order of the keys of type_groups
    args,          \* positional arguments of the command
    options,       \* parsed options of the command
    VERBOSE,       \* the module global
    local_VERBOSE, \* the name VERBOSE inside handle
    pc,            \* position of handle
    talks,         \* handle's OrderedDict: bucket name -> list of talk ids
    sessions,      \* handle's OrderedDict: bucket name -> (talk id -> record)
    cur,           \* index of the next item of talks.items()
    stdout,        \* what has been printed
    profiles,      \* attendee profiles of talk.speakers.all(), in order
    joined,        \* result of speaker_companies
    title_in,      \* argument of clean_title
    title_out,     \* its result
    called         \* which helper has been called ("" : none)

storevars == <<ticket, ticketconf, orders>>
ticketvars == <<hu, hres>>
inputvars == <<talkdb, admin_types, group_order, args, options>>
handlevars == <<VERBOSE, local_VERBOSE, pc, talks, sessions, cur, stdout>>

helpervars == <<profiles, joined, title_in, title_out, called>>

vars == <<storevars, ticketvars, inputvars, handlevars, helpervars>>

----------------------------------------------------------------------------
(* Bounds and input alphabets                                              *)

MaxRows == 2       \* rows of the TicketConference table
MaxOrders == 1     \* rows of the Order table
MaxTalks == 2      \* rows of the Talk table
MaxSpeakers == 2   \* speakers of a talk
MaxProfiles == 3   \* speakers of the talk given to speaker_companies
MaxTitleLen == 6   \* characters of the title given to clean_title

Users == {1, 2}
TicketIds == {1, 2}
None == 0          \* OrderItem.ticket IS NULL

\* Fare codes as character sequences: "TR" is a conference fare, "ST" has a
\* 'T' that is not a prefix.
FareCodes == {<<"T", "R">>, <<"S", "T">>}

\* auth.User.email, non-empty and distinct per user; "" below stands for an
\* empty/NULL assigned_to.
Email(user) == IF user = 1 THEN "a" ELSE "b"
Assignees == {"", "a", "b"}

SeqsUpTo(S, n) == UNION {[1..k -> S] : k \in 0..n}

\* An order holds zero or one order item; the item's ticket may be NULL.
ItemLists == {<<>>} \cup {<<t>> : t \in TicketIds \cup {None}}

----------------------------------------------------------------------------
(* Ticket eligibility                                                      *)

Ret(b) == [exc |-> FALSE, val |-> b]
RuntimeError == [exc |-> TRUE, val |-> FALSE]

\* str.startswith with a one-character prefix
StartsWith(code, ch) == Len(code) >= 1 /\ code[1] = ch

\* get_orders_from without the _complete=True condition
get_orders_from_any_state(user) ==
    SelectSeq(orders, LAMBDA o : o.user = user)

\* assopy_models.Order.objects.filter(_complete=True, user=user.id)
get_orders_from(user) ==
    SelectSeq(orders, LAMBDA o : o.complete /\ o.user = user)

\* p3_models.TicketConference.objects.filter(assigned_to=user.email)
get_tickets_assigned_to(user) ==
    SelectSeq(ticketconf, LAMBDA r : r.assigned_to = Email(user))

\* is_ticket_assigned_to_someone_else taking the first of several rows
is_ticket_assigned_first_match(tkt, user) ==
    LET tickets == SelectSeq(ticketconf, LAMBDA r : r.ticket_id = tkt)
    IN  IF tickets = <<>> THEN Ret(FALSE)
        ELSE IF ticket[tickets[1].ticket_id].user_id # user THEN Ret(TRUE)
        ELSE IF tickets[1].assigned_to = "" THEN Ret(FALSE)
        ELSE IF tickets[1].assigned_to = Email(user) THEN Ret(FALSE)
        ELSE Ret(TRUE)

is_ticket_assigned_to_someone_else(tkt, user) ==
    LET tickets == SelectSeq(ticketconf, LAMBDA r : r.ticket_id = tkt)
    IN  IF tickets = <<>> THEN Ret(FALSE)
        ELSE IF Len(tickets) > 1 THEN RuntimeError
        ELSE IF ticket[tickets[1].ticket_id].user_id # user THEN Ret(TRUE)
        ELSE IF tickets[1].assigned_to = "" THEN Ret(FALSE)
        ELSE IF tickets[1].assigned_to = Email(user) THEN Ret(FALSE)
        ELSE Ret(TRUE)

\* list(user.ticket_set.all()), in primary-key order
TicketSet(user) ==
    LET F[i \in 0..Cardinality(TicketIds)] ==
            IF i = 0 THEN <<>>
            ELSE IF ticket[i].user_id = user THEN Append(F[i - 1], i)
            ELSE F[i - 1]
    IN  F[Cardinality(TicketIds)]

RECURSIVE Flatten(_)
Flatten(ss) == IF ss = <<>> THEN <<>> ELSE Head(ss) \o Flatten(Tail(ss))

\* [ordi.ticket for order in orders for ordi in order.orderitem_set.all()
\*  if ordi.ticket is not None]
OrderTkts(os) ==
    SelectSeq(Flatten([i \in 1..Len(os) |-> os[i].items]),
              LAMBDA t : t # None)

\* the for loop of has_ticket over user_tickets
RECURSIVE ScanTickets(_, _)
ScanTickets(tkts, user) ==
    IF tkts = <<>> THEN Ret(FALSE)
    ELSE IF StartsWith(ticket[Head(tkts)].fare, "T")
         THEN LET r == is_ticket_assigned_to_someone_else(Head(tkts), user)
              IN  IF r.exc THEN RuntimeError
                  ELSE IF ~r.val THEN Ret(TRUE)
                  ELSE ScanTickets(Tail(tkts), user)
         ELSE ScanTickets(Tail(tkts), user)

UserTickets(user) == TicketSet(user) \o OrderTkts(get_orders_from(user))

\* has_ticket without the early return for directly assigned tickets
has_ticket_no_shortcut(user) == ScanTickets(UserTickets(user), user)

has_ticket(user) ==
    IF get_tickets_assigned_to(user) # <<>> THEN Ret(TRUE)
    ELSE ScanTickets(UserTickets(user), user)

\* the loop of have_tickets with the exception swallowed
RECURSIVE HaveTicketsLoopSwallow(_, _)
HaveTicketsLoopSwallow(usrs, acc) ==
    IF usrs = <<>> THEN acc
    ELSE LET r == has_ticket(Head(usrs))
         IN  HaveTicketsLoopSwallow(
                 Tail(usrs),
                 [acc EXCEPT !.val = Append(acc.val, IF r.exc THEN FALSE ELSE r.val),
                             !.out = IF r.exc THEN <<"traceback">> ELSE acc.out])

\* the body of the for loop of have_tickets: the outcome after the speakers
\* usrs, given the outcome acc of the speakers before them
RECURSIVE HaveTicketsLoop(_, _)
HaveTicketsLoop(usrs, acc) ==
    IF usrs = <<>> THEN acc
    ELSE LET r == has_ticket(Head(usrs))
         IN  IF r.exc
             THEN [exc |-> TRUE, val |-> acc.val, out |-> <<"traceback">>]
             ELSE HaveTicketsLoop(Tail(usrs),
                                  [acc EXCEPT !.val = Append(acc.val, r.val)])

\* a speaker list without the repeated speakers
RECURSIVE Distinct(_)
Distinct(usrs) ==
    IF usrs = <<>> THEN <<>>
    ELSE LET rest == Distinct(SubSeq(usrs, 1, Len(usrs) - 1))
             last == usrs[Len(usrs)]
         IN  IF \E i \in DOMAIN rest : rest[i] = last THEN rest
             ELSE Append(rest, last)

\* have_tickets over the distinct speakers
have_tickets_distinct(talk) ==
    HaveTicketsLoop(Distinct(talk.speakers),
                    [exc |-> FALSE, val |-> <<>>, out |-> <<>>])

\* have_tickets(talk): [exc, val, out], out being what it prints
have_tickets(talk) ==
    HaveTicketsLoop(talk.speakers, [exc |-> FALSE, val |-> <<>>, out |-> <<>>])

----------------------------------------------------------------------------
(* Text helpers. A string is a sequence of characters.                     *)

Space == " "
Tab == "TAB"        \* any whitespace character other than the space
Quote == "QUOTE"    \* the double-quote character
Whitespace == {Space, Tab}

Lower == {"a", "b", "c"}
Upper == {"A", "B", "C"}
ToUpper(c) == IF c = "a" THEN "A" ELSE IF c = "b" THEN "B"
              ELSE IF c = "c" THEN "C" ELSE c
ToLower(c) == IF c = "A" THEN "a" ELSE IF c = "B" THEN "b"
              ELSE IF c = "C" THEN "c" ELSE c

\* byte value of a character
Ord(c) == CASE c = Tab -> 9 [] c = Space -> 32 [] c = Quote -> 34
            [] c = "A" -> 65 [] c = "B" -> 66 [] c = "C" -> 67
            [] c = "a" -> 97 [] c = "b" -> 98 [] c = "c" -> 99

RECURSIVE LStrip(_)
LStrip(s) == IF s # <<>> /\ Head(s) \in Whitespace THEN LStrip(Tail(s)) ELSE s

RECURSIVE RStrip(_)
RStrip(s) == IF s # <<>> /\ s[Len(s)] \in Whitespace
             THEN RStrip(SubSeq(s, 1, Len(s) - 1)) ELSE s

\* str.strip()
Strip(s) == RStrip(LStrip(s))

\* every run of spaces collapsed to one space
RECURSIVE ReplaceSpaceRuns(_)
ReplaceSpaceRuns(s) ==
    IF Len(s) < 2 THEN s
    ELSE IF s[1] = Space /\ s[2] = Space
         THEN ReplaceSpaceRuns(Tail(s))
         ELSE <<s[1]>> \o ReplaceSpaceRuns(Tail(s))

\* str.replace("  ", " "): non-overlapping occurrences, left to right
RECURSIVE ReplaceDoubleSpace(_)
ReplaceDoubleSpace(s) ==
    IF Len(s) < 2 THEN s
    ELSE IF s[1] = Space /\ s[2] = Space
         THEN <<Space>> \o ReplaceDoubleSpace(SubSeq(s, 3, Len(s)))
         ELSE <<s[1]>> \o ReplaceDoubleSpace(Tail(s))

\* title[1:-1] when title starts and ends with a double quote
StripQuotes(s) ==
    IF s[1] = Quote /\ s[Len(s)] = Quote THEN SubSeq(s, 2, Len(s) - 1) ELSE s

clean_title(title) ==
    IF Strip(title) = <<>> THEN Strip(title)
    ELSE StripQuotes(ReplaceDoubleSpace(Strip(Strip(title))))

\* str.title(): a cased character is upper-cased after an uncased one and
\* lower-cased after a cased one
RECURSIVE TitleCase(_, _)
TitleCase(s, prevCased) ==
    IF s = <<>> THEN <<>>
    ELSE LET c == Head(s)
         IN  IF c \in Lower \cup Upper
             THEN <<IF prevCased THEN ToLower(c) ELSE ToUpper(c)>>
                  \o TitleCase(Tail(s), TRUE)
             ELSE <<c>> \o TitleCase(Tail(s), FALSE)

\* a < b for byte strings
RECURSIVE StrLess(_, _)
StrLess(a, b) ==
    IF b = <<>> THEN FALSE
    ELSE IF a = <<>> THEN TRUE
    ELSE IF Ord(Head(a)) # Ord(Head(b)) THEN Ord(Head(a)) < Ord(Head(b))
    ELSE StrLess(Tail(a), Tail(b))

----------------------------------------------------------------------------
(* OrderedDict as a sequence of items [k, v] in key insertion order        *)

\* d[k] = v with an existing key moved to the end
OdSetMoveToEnd(d, k, v) ==
    Append(SelectSeq(d, LAMBDA item : item.k # k), [k |-> k, v |-> v])

\* d[k] = v: a new key is appended, an existing key keeps its position
OdSet(d, k, v) ==
    IF \E i \in DOMAIN d : d[i].k = k
    THEN [i \in DOMAIN d |-> IF d[i].k = k THEN [k |-> k, v |-> v] ELSE d[i]]
    ELSE Append(d, [k |-> k, v |-> v])

----------------------------------------------------------------------------
(* handle                                                                  *)

\* type_groups
type_groups(grp_name) ==
    CASE grp_name = "talk" -> <<"t_30", "t_45", "t_60">>
      [] grp_name = "interactive" -> <<"i_60">>
      [] grp_name = "training" -> <<"r_180">>
      [] grp_name = "panel" -> <<"p_60", "p_90">>
      [] grp_name = "poster" -> <<"p_180">>
      [] grp_name = "helpdesk" -> <<"h_180">>

GroupNames == {"talk", "interactive", "training", "panel", "poster", "helpdesk"}

\* models.Talk.objects.filter(conference=conference,
\*                           status=options['talk_status'], ...):
\* the ids of the talks of the conference and status, in primary-key order
ConferenceTalks ==
    SelectSeq([i \in 1..Len(talkdb) |-> i],
              LAMBDA i : /\ talkdb[i].conference = args[1]
                         /\ talkdb[i].status = options.talk_status)

\* the loop over dict(models.TALK_ADMIN_TYPE).items()
RECURSIVE GroupByAdminTypes(_, _)
GroupByAdminTypes(types, d) ==
    IF types = <<>> THEN d
    ELSE GroupByAdminTypes(
             Tail(types),
             OdSet(d, Head(types).name,
                   LET adm_type == Head(types).code
                   IN  SelectSeq(ConferenceTalks,
                                 LAMBDA i : talkdb[i].admin_type = adm_type)))

\* grp_talks without the admin_type='' condition
RECURSIVE GroupTalksAnyAdminType(_)
GroupTalksAnyAdminType(grp_types) ==
    IF grp_types = <<>> THEN <<>>
    ELSE LET talk_type == Head(grp_types)
         IN  SelectSeq(ConferenceTalks, LAMBDA i : talkdb[i].type = talk_type)
             \o GroupTalksAnyAdminType(Tail(grp_types))

\* grp_talks of one group: the bags of its talk types, concatenated
RECURSIVE GroupTalks(_)
GroupTalks(grp_types) ==
    IF grp_types = <<>> THEN <<>>
    ELSE LET talk_type == Head(grp_types)
         IN  SelectSeq(ConferenceTalks,
                       LAMBDA i : /\ talkdb[i].type = talk_type
                                  /\ talkdb[i].admin_type = "")
             \o GroupTalks(Tail(grp_types))

\* the loop over type_groups.items()
RECURSIVE GroupByTypeGroups(_, _)
GroupByTypeGroups(names, d) ==
    IF names = <<>> THEN d
    ELSE GroupByTypeGroups(
             Tail(names),
             OdSet(d, Head(names), GroupTalks(type_groups(Head(names)))))

\* talk_schedule(talk): [val, out], out being what it prints
talk_schedule(id) ==
    IF ~talkdb[id].event
    THEN [val |-> "",
          out |-> IF VERBOSE
                  THEN <<[kind |-> "not scheduled", talk |-> id, doc |-> <<>>]>>
                  ELSE <<>>]
    ELSE [val |-> "start, end", out |-> <<>>]

\* the sort key of handle
SortKey(id) == TitleCase(clean_title(talkdb[id].title), FALSE)

\* list.sort(key=...): stable
RECURSIVE InsertSorted(_, _)
InsertSorted(sorted, id) ==
    IF sorted = <<>> THEN <<id>>
    ELSE IF StrLess(SortKey(id), SortKey(Head(sorted)))
         THEN <<id>> \o sorted
         ELSE <<Head(sorted)>> \o InsertSorted(Tail(sorted), id)

RECURSIVE SortTalks(_, _)
SortTalks(ids, sorted) ==
    IF ids = <<>> THEN sorted
    ELSE SortTalks(Tail(ids), InsertSorted(sorted, Head(ids)))

\* the loop over the talks of one session. acc = [exc, recs, out]: recs is
\* sessions[type_name] so far, out what was printed so far. A record keeps
\* the fields computed by this file's helpers that the properties below read;
\* the other fields copy attributes of the talk, and user_votes (--votes) is
\* added after the record is stored.
RECURSIVE BuildSession(_, _)
BuildSession(ids, acc) ==
    IF ids = <<>> THEN acc
    ELSE LET id == Head(ids)
             sched == talk_schedule(id)
             have == have_tickets(talkdb[id])
         IN  IF have.exc
             THEN [exc |-> TRUE, recs |-> acc.recs,
                   out |-> acc.out \o sched.out
                           \o [i \in DOMAIN have.out |->
                                  [kind |-> have.out[i], talk |-> id, doc |-> <<>>]]]
             ELSE BuildSession(
                      Tail(ids),
                      [exc |-> FALSE,
                       recs |-> OdSet(acc.recs, id,
                                      [id |-> id,
                                       timerange |-> sched.val,
                                       title |-> clean_title(talkdb[id].title),
                                       have_tickets |-> have.val]),
                       out |-> acc.out \o sched.out])

\* handle and the module before the command runs
HandleIdle ==
    /\ talkdb = <<>>
    /\ admin_types = <<>>
    /\ group_order = <<>>
    /\ args = <<>>
    /\ options = [verbose |-> FALSE, talk_status |-> "proposed"]
    /\ VERBOSE = FALSE
    /\ local_VERBOSE = FALSE
    /\ pc = "idle"
    /\ talks = <<>>
    /\ sessions = <<>>
    /\ cur = 1
    /\ stdout = <<>>

\* no helper has been called
HelpersIdle ==
    /\ profiles = <<>>
    /\ joined = <<>>
    /\ title_in = <<>>
    /\ title_out = <<>>
    /\ called = ""

----------------------------------------------------------------------------
(* The store                                                               *)

InitStore ==
    /\ ticket \in [TicketIds -> [user_id : Users, fare : FareCodes]]
    /\ ticketconf \in SeqsUpTo([ticket_id : TicketIds, assigned_to : Assignees],
                               MaxRows)
    /\ orders \in SeqsUpTo([user : Users, complete : BOOLEAN, items : ItemLists],
                           MaxOrders)

----------------------------------------------------------------------------
(* has_ticket called on one user of the store                              *)

InitTicket ==
    /\ InitStore
    /\ hu = 0
    /\ hres = Ret(FALSE)
    /\ HandleIdle
    /\ HelpersIdle

CallHasTicket ==
    /\ hu = 0
    /\ \E user \in Users :
          /\ hu' = user
          /\ hres' = has_ticket(user)
    /\ UNCHANGED <<storevars, inputvars, handlevars, helpervars>>

NextTicket == CallHasTicket

SpecTicket == InitTicket /\ [][NextTicket]_vars

----------------------------------------------------------------------------
(* Inputs of handle                                                        *)

\* models.TALK_ADMIN_TYPE is defined outside this file: any mapping from
\* administrative type codes to display names, iterated in any order. The
\* code "" is the default administrative type of a talk.
AdminCodes == {"", "k"}
AdminNames == {"Keynote", "talk"}
AdminConfigs ==
    {c \in SeqsUpTo([code : AdminCodes, name : AdminNames], Cardinality(AdminCodes)) :
        \A i, j \in DOMAIN c : i # j => c[i].code # c[j].code}

\* type_groups is a plain dict: its iteration order is fixed by the
\* interpreter, not by the source; two orders are explored.
LiteralOrder == <<"talk", "interactive", "training", "panel", "poster", "helpdesk">>
Reverse(s) == [i \in DOMAIN s |-> s[Len(s) + 1 - i]]
GroupOrders == {LiteralOrder, Reverse(LiteralOrder)}

\* the title of the i-th talk: the second sorts before the first once cleaned
TitleOf(i) == IF i % 2 = 1 THEN <<"b", Space, Space, "c">> ELSE <<Quote, "a", Quote>>

MakeTalk(kind, speakers, title) ==
    [conference |-> kind.conference, status |-> kind.status, type |-> kind.type,
     admin_type |-> kind.admin_type, event |-> kind.event,
     speakers |-> speakers, title |-> title]

\* talks of the selected conference and status, and one of another
\* conference and one of another status
TalkKinds ==
    [conference : {"ep"}, status : {"proposed"}, type : {"t_30", "p_60"},
     admin_type : AdminCodes, event : BOOLEAN]
    \cup [conference : {"other"}, status : {"proposed"}, type : {"t_30"},
          admin_type : {""}, event : {TRUE}]
    \cup [conference : {"ep"}, status : {"accepted"}, type : {"t_30"},
          admin_type : {""}, event : {TRUE}]

\* every ticket is a conference ticket owned by the user of the same number
OwnTickets == [t \in TicketIds |-> [user_id |-> t, fare |-> <<"T", "R">>]]

\* the ticket of user 2 has two canonical rows
DuplicateRows == <<[ticket_id |-> 2, assigned_to |-> ""],
                   [ticket_id |-> 2, assigned_to |-> ""]>>

\* Talk tables of up to MaxTalks talks of any kinds; the i-th talk has one
\* speaker, user 1 or user 2 in turn.
GroupingTalkDbs ==
    UNION {{[i \in 1..n |-> MakeTalk(ks[i], <<((i - 1) % 2) + 1>>, TitleOf(i))] :
               ks \in [1..n -> TalkKinds]} : n \in 0..MaxTalks}

\* Talk tables of one or two scheduled talks of type t_45 with any speakers
SpeakerTalkKind ==
    [conference |-> "ep", status |-> "proposed", type |-> "t_45",
     admin_type |-> "", event |-> TRUE]
SpeakerTalkDbs ==
    UNION {{[i \in 1..n |-> MakeTalk(SpeakerTalkKind, ss[i], TitleOf(i))] :
               ss \in [1..n -> SeqsUpTo(Users, MaxSpeakers)]} : n \in {1, 2}}

HandleReady ==
    /\ VERBOSE = FALSE
    /\ local_VERBOSE = FALSE
    /\ pc = "start"
    /\ talks = <<>>
    /\ sessions = <<>>
    /\ cur = 1
    /\ stdout = <<>>
    /\ hu = 0
    /\ hres = Ret(FALSE)
    /\ HelpersIdle

\* the command run on talk tables of every kind
Init ==
    /\ ticket = OwnTickets
    /\ orders = <<>>
    /\ ticketconf \in {<<>>, DuplicateRows}
    /\ options \in [verbose : BOOLEAN, talk_status : {"proposed"}]
    /\ \/ /\ args = <<>>
          /\ talkdb = <<>>
          /\ admin_types = <<>>
          /\ group_order = LiteralOrder
       \/ /\ args = <<"ep">>
          /\ talkdb \in GroupingTalkDbs
          /\ admin_types \in AdminConfigs
          /\ group_order \in GroupOrders
    /\ HandleReady

\* the command run on talks with any speakers over any canonical rows
InitSpeakers ==
    /\ ticket = OwnTickets
    /\ orders = <<>>
    /\ ticketconf \in SeqsUpTo([ticket_id : TicketIds, assigned_to : Assignees],
                               MaxRows)
    /\ options \in [verbose : BOOLEAN, talk_status : {"proposed"}]
    /\ \/ /\ args = <<>>
          /\ talkdb = <<>>
          /\ ticketconf = <<>>
       \/ /\ args = <<"ep">>
          /\ talkdb \in SpeakerTalkDbs
          /\ options.verbose = FALSE
    /\ admin_types = <<[code |-> "k", name |-> "Keynote"]>>
    /\ group_order = LiteralOrder
    /\ HandleReady

----------------------------------------------------------------------------
(* The steps of handle                                                     *)

\* conference = args[0] raises IndexError: CommandError
HandleUsageError ==
    /\ pc = "start"
    /\ args = <<>>
    /\ pc' = "CommandError"
    /\ UNCHANGED <<storevars, ticketvars, inputvars, helpervars, VERBOSE, local_VERBOSE,
                   talks, sessions, cur, stdout>>

\* if options['verbose']: VERBOSE = True -- an assignment in handle binds a
\* local name; then the grouping by administrative type
HandleGroupAdmin ==
    /\ pc = "start"
    /\ args # <<>>
    /\ local_VERBOSE' = IF options.verbose THEN TRUE ELSE local_VERBOSE
    /\ talks' = GroupByAdminTypes(admin_types, <<>>)
    /\ pc' = "type_groups"
    /\ UNCHANGED <<storevars, ticketvars, inputvars, helpervars, VERBOSE, sessions, cur, stdout>>

HandleGroupTypes ==
    /\ pc = "type_groups"
    /\ talks' = GroupByTypeGroups(group_order, talks)
    /\ pc' = "sessions"
    /\ UNCHANGED <<storevars, ticketvars, inputvars, helpervars, VERBOSE, local_VERBOSE,
                   sessions, cur, stdout>>

\* one iteration of the loop over talks.items()
HandleSession ==
    /\ pc = "sessions"
    /\ cur <= Len(talks)
    /\ LET type_name == talks[cur].k
           session_talks == SortTalks(talks[cur].v, <<>>)
           res == BuildSession(session_talks,
                               [exc |-> FALSE, recs |-> <<>>, out |-> <<>>])
       IN  IF talks[cur].v = <<>>
           THEN /\ cur' = cur + 1
                /\ UNCHANGED <<pc, talks, sessions, stdout>>
           ELSE /\ talks' = [talks EXCEPT ![cur].v = session_talks]
                /\ sessions' = OdSet(sessions, type_name, res.recs)
                /\ stdout' = stdout \o res.out
                /\ pc' = IF res.exc THEN "raised" ELSE pc
                /\ cur' = IF res.exc THEN cur ELSE cur + 1
    /\ UNCHANGED <<storevars, ticketvars, inputvars, helpervars, VERBOSE, local_VERBOSE>>

\* print(json.dumps(sessions, indent=2))
HandlePrint ==
    /\ pc = "sessions"
    /\ cur > Len(talks)
    /\ stdout' = Append(stdout, [kind |-> "json", talk |-> 0, doc |-> sessions])
    /\ pc' = "done"
    /\ UNCHANGED <<storevars, ticketvars, inputvars, helpervars, VERBOSE, local_VERBOSE,
                   talks, sessions, cur>>

Next ==
    \/ HandleUsageError
    \/ HandleGroupAdmin
    \/ HandleGroupTypes
    \/ HandleSession
    \/ HandlePrint

Spec == Init /\ [][Next]_vars

SpecSpeakers == InitSpeakers /\ [][Next]_vars

----------------------------------------------------------------------------
(* speaker_companies                                                       *)

\* the least string of a non-empty set
MinStr(S) == CHOOSE x \in S : \A y \in S : ~StrLess(y, x)

\* sorted(set)
RECURSIVE Sorted(_)
Sorted(S) == IF S = {} THEN <<>>
             ELSE <<MinStr(S)>> \o Sorted(S \ {MinStr(S)})

\* u', '.join(list)
RECURSIVE Join(_)
Join(list) ==
    IF list = <<>> THEN <<>>
    ELSE IF Len(list) = 1 THEN list[1]
    ELSE list[1] \o <<",", " ">> \o Join(Tail(list))

\* set(speaker.user.attendeeprofile.company for speaker in talk.speakers.all()
\*     if speaker.user.attendeeprofile)
CompanySet(ps) == {ps[i].company : i \in {j \in DOMAIN ps : ps[j].exists}}

speaker_companies(ps) == Join(Sorted(CompanySet(ps)))

CompanyNames == {<<>>, <<"A">>, <<"B">>, <<"A", "b">>}
ProfileKinds == [exists : {TRUE}, company : CompanyNames]
                \cup [exists : {FALSE}, company : {<<>>}]

InitCompanies ==
    /\ profiles \in SeqsUpTo(ProfileKinds, MaxProfiles)
    /\ joined = <<>>
    /\ title_in = <<>>
    /\ title_out = <<>>
    /\ called = ""
    /\ ticket = OwnTickets
    /\ ticketconf = <<>>
    /\ orders = <<>>
    /\ hu = 0
    /\ hres = Ret(FALSE)
    /\ HandleIdle

CallSpeakerCompanies ==
    /\ called = ""
    /\ joined' = speaker_companies(profiles)
    /\ called' = "speaker_companies"
    /\ UNCHANGED <<storevars, ticketvars, inputvars, handlevars, profiles,
                   title_in, title_out>>

NextCompanies == CallSpeakerCompanies

SpecCompanies == InitCompanies /\ [][NextCompanies]_vars

----------------------------------------------------------------------------
(* clean_title                                                             *)

TitleChars == {Space, Tab, Quote, "a"}

InitTitle ==
    /\ title_in \in SeqsUpTo(TitleChars, MaxTitleLen)
    /\ title_out = <<>>
    /\ called = ""
    /\ profiles = <<>>
    /\ joined = <<>>
    /\ ticket = OwnTickets
    /\ ticketconf = <<>>
    /\ orders = <<>>
    /\ hu = 0
    /\ hres = Ret(FALSE)
    /\ HandleIdle

CallCleanTitle ==
    /\ called = ""
    /\ title_out' = clean_title(title_in)
    /\ called' = "clean_title"
    /\ UNCHANGED <<storevars, ticketvars, inputvars, handlevars, profiles,
                   joined, title_in>>

NextTitle == CallCleanTitle

SpecTitle == InitTitle /\ [][NextTitle]_vars

----------------------------------------------------------------------------
(* Properties of has_ticket (SpecTicket)                                   *)

\* canonical rows of a ticket identifier
Rows(t) == {i \in DOMAIN ticketconf : ticketconf[i].ticket_id = t}

\* tickets owned by the user, and non-null tickets of the order items of the
\* user's completed orders
HeldTickets(u) ==
    {t \in TicketIds : ticket[t].user_id = u}
    \cup {t \in TicketIds :
            \E i \in DOMAIN orders :
               /\ orders[i].complete
               /\ orders[i].user = u
               /\ \E j \in DOMAIN orders[i].items : orders[i].items[j] = t}

NothingAssignedTo(u) ==
    \A i \in DOMAIN ticketconf : ticketconf[i].assigned_to # Email(u)

ConferenceFare(t) == ticket[t].fare[1] = "T"

\* claimed by someone else: exactly one canonical record, owned by another
\* user or reassigned to another email
ClaimedByOther(t, u) ==
    /\ Cardinality(Rows(t)) = 1
    /\ \A i \in Rows(t) :
          \/ ticket[t].user_id # u
          \/ /\ ticketconf[i].assigned_to # ""
             /\ ticketconf[i].assigned_to # Email(u)

Duplicated(t) == Cardinality(Rows(t)) > 1

\* C1 as stated: a user holding any ticket whose identifier has more than one
\* canonical row makes has_ticket raise, whatever the order of the tickets and
\* whatever other tickets the user holds.
C1_AnyDuplicateRaises ==
    (hu # 0 /\ \E t \in HeldTickets(hu) : Duplicated(t)) => hres.exc

\* C1 amended: has_ticket raises exactly when no ticket is reassigned to the
\* user's email and, in the order the tickets are examined, a conference-fare
\* ticket with more than one canonical row comes before any conference-fare
\* ticket that is not claimed by someone else; it then returns no boolean.
C1_FirstDecidingDuplicateRaises ==
    hu # 0 =>
      LET L == UserTickets(hu)
      IN  hres.exc <=>
            /\ NothingAssignedTo(hu)
            /\ \E i \in 1..Len(L) :
                  /\ ConferenceFare(L[i])
                  /\ Duplicated(L[i])
                  /\ \A j \in 1..(i - 1) :
                        ConferenceFare(L[j]) => ClaimedByOther(L[j], hu)

\* the raise happens although the user holds another ticket
C1_Witness ==
    /\ hu # 0
    /\ hres.exc
    /\ Cardinality(HeldTickets(hu)) > 1

\* C2: with nothing reassigned to the user's email and no duplicated ticket
\* identifier, has_ticket returns true iff some held ticket has a fare code
\* starting with 'T' and is not claimed by someone else.
C2_UsableTicketIff ==
    (/\ hu # 0
     /\ NothingAssignedTo(hu)
     /\ \A t \in TicketIds : ~Duplicated(t))
    => /\ ~hres.exc
       /\ hres.val <=> \E t \in HeldTickets(hu) :
                           ConferenceFare(t) /\ ~ClaimedByOther(t, hu)

\* the user's only conference ticket is their own, reassigned to another
\* email: false
C2_Witness ==
    /\ hu # 0
    /\ hres = Ret(FALSE)
    /\ \A t \in TicketIds : ~Duplicated(t)
    /\ \E t \in HeldTickets(hu) :
          /\ ConferenceFare(t)
          /\ ticket[t].user_id = hu
          /\ \E i \in Rows(t) : ticketconf[i].assigned_to \notin {"", Email(hu)}
          /\ \A t2 \in HeldTickets(hu) \ {t} : ~ConferenceFare(t2)

\* C3: a user with a ticket reassigned to their email gets true, whatever
\* they own or ordered and whatever the canonical records are.
C3_AssignedTicketGivesTrue ==
    (hu # 0 /\ ~NothingAssignedTo(hu)) => hres = Ret(TRUE)

\* true although a held conference ticket has a duplicated identifier
C3_Witness ==
    /\ hu # 0
    /\ ~NothingAssignedTo(hu)
    /\ hres = Ret(TRUE)
    /\ \E t \in HeldTickets(hu) : ConferenceFare(t) /\ Duplicated(t)

----------------------------------------------------------------------------
(* Properties of handle (Spec, SpecSpeakers)                               *)

\* the JSON documents written to standard output
Docs == {stdout[i].doc : i \in {j \in DOMAIN stdout : stdout[j].kind = "json"}}

\* the names of the buckets of a document that hold the talk
BucketsOf(d, id) ==
    {d[i].k : i \in {n \in DOMAIN d : \E j \in DOMAIN d[n].v : d[n].v[j].k = id}}

\* the talks of the conference and status the command was run for
Selected(id) ==
    /\ talkdb[id].conference = args[1]
    /\ talkdb[id].status = options.talk_status

\* the fixed categories whose presentation types include the type
CategoriesOf(type) ==
    {g \in GroupNames : \E i \in DOMAIN type_groups(g) : type_groups(g)[i] = type}

\* the display names TALK_ADMIN_TYPE gives to a code
NamesOf(code) ==
    {admin_types[i].name : i \in {j \in DOMAIN admin_types : admin_types[j].code = code}}

AdminTypedOnlyUnderAdminBucket(d, id) ==
    talkdb[id].admin_type # "" =>
        \A b \in BucketsOf(d, id) :
            b \in NamesOf(talkdb[id].admin_type) /\ b \notin GroupNames

\* C4 as stated: a talk with the empty administrative type and a presentation
\* type of a fixed category is in that category's bucket and in no other; a
\* talk with a non-empty administrative type is only under its
\* administrative-type bucket, never in a fixed-category bucket.
C4_ExactlyOneBucket ==
    \A d \in Docs : \A id \in DOMAIN talkdb :
        Selected(id) =>
            /\ (talkdb[id].admin_type = "" /\ CategoriesOf(talkdb[id].type) # {})
                   => BucketsOf(d, id) = CategoriesOf(talkdb[id].type)
            /\ AdminTypedOnlyUnderAdminBucket(d, id)

\* C4 amended: such a talk is in the bucket of its fixed category and in no
\* other bucket except the one TALK_ADMIN_TYPE names for the empty code, so in
\* exactly one bucket when the empty code is not an administrative type; a
\* talk with a non-empty administrative type is only under its
\* administrative-type bucket, never in a fixed-category bucket.
C4_CategoryBucketAndEmptyCodeBucket ==
    \A d \in Docs : \A id \in DOMAIN talkdb :
        Selected(id) =>
            /\ (talkdb[id].admin_type = "" /\ CategoriesOf(talkdb[id].type) # {})
                   => /\ CategoriesOf(talkdb[id].type) \subseteq BucketsOf(d, id)
                      /\ BucketsOf(d, id) \subseteq
                             CategoriesOf(talkdb[id].type) \cup NamesOf("")
                      /\ Cardinality(CategoriesOf(talkdb[id].type)) = 1
            /\ AdminTypedOnlyUnderAdminBucket(d, id)

\* a document with a talk in its fixed category only and an administrative
\* talk under its administrative type
C4_Witness ==
    \E d \in Docs : \E id1, id2 \in DOMAIN talkdb :
        /\ talkdb[id1].admin_type = ""
        /\ BucketsOf(d, id1) = {"talk"}
        /\ talkdb[id2].admin_type = "k"
        /\ BucketsOf(d, id2) = {"Keynote"}

\* a talk of a surviving bucket one of whose speakers' ticket check fails
CheckFails(id) ==
    \E i \in DOMAIN talkdb[id].speakers : has_ticket(talkdb[id].speakers[i]).exc

Bucketed(id) ==
    \E n \in DOMAIN talks : \E j \in DOMAIN talks[n].v : talks[n].v[j] = id

HasRecord(id) ==
    \E n \in DOMAIN sessions : \E j \in DOMAIN sessions[n].v : sessions[n].v[j].k = id

\* C5: a failing ticket check is printed as a traceback and ends the run:
\* handle does not complete, no record is made for the talk and no JSON
\* document is written.
C5_FailurePropagates ==
    /\ pc = "done" => \A id \in DOMAIN talkdb : Bucketed(id) => ~CheckFails(id)
    /\ \A id \in DOMAIN talkdb : CheckFails(id) => ~HasRecord(id)
    /\ pc = "raised" =>
          /\ Docs = {}
          /\ stdout # <<>>
          /\ stdout[Len(stdout)].kind = "traceback"
          /\ CheckFails(stdout[Len(stdout)].talk)
    /\ (\E id \in DOMAIN talkdb : Bucketed(id) /\ CheckFails(id)) => Docs = {}

\* the check of the second talk failed after the first talk was recorded
C5_Witness ==
    /\ pc = "raised"
    /\ \E id \in DOMAIN talkdb : HasRecord(id)
    /\ Docs = {}

\* the records built so far
Records ==
    UNION {{sessions[n].v[j].v : j \in DOMAIN sessions[n].v} : n \in DOMAIN sessions}

\* C6: have_tickets of a talk has one boolean per speaker, the i-th being
\* has_ticket of the i-th speaker, in speaker order, not deduplicated.
C6_OneBooleanPerSpeaker ==
    \A r \in Records :
        LET spk == talkdb[r.id].speakers
        IN  /\ Len(r.have_tickets) = Len(spk)
            /\ \A i \in DOMAIN spk : r.have_tickets[i] = has_ticket(spk[i]).val

\* two speakers, the first with a usable ticket, the second without; and a
\* speaker listed twice
C6_Witness ==
    /\ \E r \in Records : /\ r.have_tickets = <<TRUE, FALSE>>
                          /\ talkdb[r.id].speakers = <<1, 2>>
    /\ \E r \in Records : /\ Len(r.have_tickets) = 2
                          /\ talkdb[r.id].speakers = <<2, 2>>

\* C7: with the verbose option, talk_schedule of a talk without event logs
\* that the talk is not scheduled and returns the empty string; without the
\* option it returns the empty string and logs nothing.
C7_VerboseLogsUnscheduled ==
    \A r \in Records :
        ~talkdb[r.id].event =>
            /\ r.timerange = ""
            /\ options.verbose <=>
                   \E i \in DOMAIN stdout :
                       stdout[i].kind = "not scheduled" /\ stdout[i].talk = r.id

IndexIn(seq, x) == CHOOSE i \in DOMAIN seq : seq[i] = x

AdminName(b) == \E i \in DOMAIN admin_types : admin_types[i].name = b

\* C8 as stated: every administrative-type bucket precedes every
\* fixed-category bucket, also when a fixed-category name overwrites a key
\* inserted for an administrative type; the fixed-category buckets are in the
\* iteration order of the fixed mapping.
C8_AdminBucketsFirst ==
    \A d \in Docs : \A i, j \in DOMAIN d :
        i < j =>
            /\ ~(d[i].k \in GroupNames /\ d[j].k \notin GroupNames)
            /\ (d[i].k \in GroupNames /\ d[j].k \in GroupNames)
                   => IndexIn(group_order, d[i].k) < IndexIn(group_order, d[j].k)

\* the place of a key in the order of first insertion
KeyRank(b) ==
    IF AdminName(b)
    THEN CHOOSE i \in DOMAIN admin_types :
             /\ admin_types[i].name = b
             /\ \A j \in 1..(i - 1) : admin_types[j].name # b
    ELSE Len(admin_types) + IndexIn(group_order, b)

\* C8 amended: the keys are in the order of their first insertion, the
\* administrative type names in iteration order and then the fixed-category
\* names not inserted before; a fixed-category bucket whose name is also an
\* administrative type name keeps the place of that earlier key, and when no
\* name is shared every administrative-type bucket precedes every
\* fixed-category bucket.
C8_FirstInsertionOrder ==
    \A d \in Docs :
        /\ \A i, j \in DOMAIN d : i < j => KeyRank(d[i].k) < KeyRank(d[j].k)
        /\ (\A b \in GroupNames : ~AdminName(b)) =>
               \A i, j \in DOMAIN d :
                   i < j => ~(d[i].k \in GroupNames /\ d[j].k \notin GroupNames)

\* a fixed-category bucket under an overwritten key, before an
\* administrative-type bucket
C8_Witness ==
    \E d \in Docs : \E i, j \in DOMAIN d :
        /\ i < j
        /\ d[i].k \in GroupNames
        /\ AdminName(d[i].k)
        /\ d[j].k \notin GroupNames

----------------------------------------------------------------------------
(* Properties of speaker_companies (SpecCompanies)                         *)

\* the non-empty company names of the speakers that have a profile
NonEmptyCompanies ==
    {profiles[i].company :
        i \in {j \in DOMAIN profiles :
                 profiles[j].exists /\ profiles[j].company # <<>>}}

\* C9: speaker_companies is the comma-joined, sorted, duplicate-free sequence
\* of the non-empty company names of the speakers with a profile; an empty
\* company name contributes no entry.
C9_SortedDistinctNonEmpty ==
    called = "speaker_companies" => joined = Join(Sorted(NonEmptyCompanies))

----------------------------------------------------------------------------
(* Properties of clean_title (SpecTitle)                                   *)

\* the subsequence of s at the positions P
SubSequence(s, P) ==
    [n \in 1..Cardinality(P) |->
        s[CHOOSE i \in P : Cardinality({j \in P : j <= i}) = n]]

\* s without its leading and trailing whitespace
Trimmed(s) ==
    LET solid == {i \in DOMAIN s : s[i] \notin Whitespace}
    IN  SubSequence(s, {i \in DOMAIN s :
                          /\ \E j \in solid : j <= i
                          /\ \E j \in solid : j >= i})

\* the number of spaces that immediately precede position i
SpacesBefore(s, i) ==
    Cardinality({j \in 1..(i - 1) : \A n \in j..(i - 1) : s[n] = Space})

\* in each run of spaces, the second space of every pair is dropped
PairsCollapsed(s) ==
    SubSequence(s, {i \in DOMAIN s : s[i] # Space \/ SpacesBefore(s, i) % 2 = 0})

\* one leading and one trailing double quote removed, when both are there
Unquoted(s) ==
    IF s # <<>> /\ s[1] = Quote /\ s[Len(s)] = Quote
    THEN [i \in 1..(Len(s) - 2) |-> s[i + 1]]
    ELSE s

\* C10: clean_title trims, replaces each pair of consecutive spaces by one
\* space in one pass (four spaces become two), then removes one leading and
\* one trailing double quote when the string starts and ends with one;
\* clean_title('"Hi  there"') = 'Hi there' and clean_title('') = ''.
C10_TrimCollapseOnceUnquote ==
    /\ called = "clean_title" =>
           title_out = Unquoted(PairsCollapsed(Trimmed(title_in)))
    /\ clean_title(<<Quote, "H", "i", Space, Space, "t", "h", "e", "r", "e", Quote>>)
           = <<"H", "i", Space, "t", "h", "e", "r", "e">>
    /\ clean_title(<<>>) = <<>>

\* a quoted title with a run of four spaces keeps two of them
C10_Witness ==
    /\ called = "clean_title"
    /\ title_in = <<Quote, Space, Space, Space, Space, Quote>>
    /\ title_out = <<Space, Space>>

====
